---- MODULE Spec2Model ----
(***************************************************************************)
(* A model of AccountVerification                                          *)
(* (packages/authorization/src/providers/account-verification.ts): the    *)
(* loop of run(), the four challenge handlers, the per-instance retry      *)
(* fields and the validation handles handed out by the callback service.   *)
(*                                                                         *)
(* Every await of the code is a position of pc; an action is the code      *)
(* between two awaits.  The portal (what a fetch returns) and the callback *)
(* service (what processingTwoFactor / processingCaptcha return) are the   *)
(* environment: their answers are chosen with \E.                          *)
(*                                                                         *)
(* Strings that the code takes apart (the URL fragment, user_id) are       *)
(* sequences of tokens; a URL is the set of markers it includes plus its   *)
(* fragment.                                                               *)
(*                                                                         *)
(* Not modelled: a second call of run() while one is under way; a throw   *)
(* of response.text(), parseFormField or getFullURL; the value of the      *)
(* code or key the callback service supplies (no branch reads it).         *)
(***************************************************************************)
EXTENDS Integers, Sequences, FiniteSets, TLC

VARIABLES
    pc,                 \* position of run(): idle, an await, or done
    response,           \* the local `response` of run()
    result,             \* what run() returned or threw
    options,            \* this.options (login, phone)
    captchaValidate,    \* this.captchaValidate
    captchaAttempts,    \* this.captchaAttempts
    twoFactorValidate,  \* this.twoFactorValidate
    twoFactorAttempts,  \* this.twoFactorAttempts
    validate,           \* the local `validate` of processTwoFactorForm
    handles,            \* every handle the callback service has returned
    runs,               \* number of calls of run() on this instance
    runBase,            \* history: Len(handles) when the current run started
    tfChain,            \* history: codes requested in the current unbroken
                        \* chain of TwoFactor responses of this run
    captchaAnswer,      \* history: <<b>> once the POST of this run that
                        \* submitted the key of the stored captcha handle
                        \* has returned, b telling whether a captcha page
    ev                  \* history: the calls made (and the response
                        \* received) by the last step, in order

vars == <<pc, response, result, options, captchaValidate, captchaAttempts,
          twoFactorValidate, twoFactorAttempts, validate, handles, runs,
          runBase, tfChain, captchaAnswer, ev>>

-----------------------------------------------------------------------------
(* Bounds of the model *)

\* calls of run() on one instance
MaxRuns == 2

\* handles the callback service hands out over the life of the instance
MaxHandles == 4

-----------------------------------------------------------------------------
(* Constants of the program *)

CALLBACK_BLANK == "CALLBACK_BLANK"

ACTION_AUTH_CODE == "act=authcheck"

ACTION_SECURITY_CODE == "act=security"

ACTION_VALIDATE == "act=validate"

ACTION_CAPTCHA == "act=captcha"

TWO_FACTOR_ATTEMPTS == 3

INVALID_PHONE_NUMBER == "INVALID_PHONE_NUMBER"

AUTHORIZATION_FAILED == "AUTHORIZATION_FAILED"

FAILED_PASSED_CAPTCHA == "FAILED_PASSED_CAPTCHA"

FAILED_PASSED_TWO_FACTOR == "FAILED_PASSED_TWO_FACTOR"

\* `undefined` in a handle field: handles are numbered from 1
NoHandle == 0

\* JavaScript values: undefined, null, NaN, a number, a string (its tokens)
Undefined == [t |-> "undefined"]

Null == [t |-> "null"]

NaN == [t |-> "NaN"]

Num(n) == [t |-> "number", n |-> n]

Str(s) == [t |-> "string", s |-> s]

-----------------------------------------------------------------------------
(* Errors *)

\* new AuthorizationError({ message, code, pageHtml })
AuthorizationError(message, code, pageHtml) ==
    [name |-> "AuthorizationError", message |-> message, code |-> code,
     pageHtml |-> pageHtml]

\* what a failed fetch rejects with (a timeout, a network error)
FetchError == [name |-> "FetchError"]

\* the request ran into the timeout of the options
FetchTimeout == [name |-> "FetchTimeout"]

\* what a rejected fetch rejects with
FetchErrors == {FetchError, FetchTimeout}

\* what a failed callback-service request rejects with
ValidatorError == [name |-> "ValidatorError"]

NoError == [name |-> "none"]

-----------------------------------------------------------------------------
(* URL fragments and their parsing *)

RECURSIVE IndexOf(_, _, _)
\* the first position >= i of token t in s, or 0
IndexOf(s, t, i) ==
    IF i > Len(s) THEN 0
    ELSE IF s[i] = t THEN i
    ELSE IndexOf(s, t, i + 1)

\* hash.startsWith('#') ? hash.substring(1) : hash
StripHash(hash) ==
    IF Len(hash) > 0 /\ hash[1] = "#" THEN SubSeq(hash, 2, Len(hash)) ELSE hash

RECURSIVE SplitAmp(_)
\* the '&'-separated pieces of a query string, empty pieces dropped
SplitAmp(s) ==
    IF Len(s) = 0 THEN <<>>
    ELSE LET i == IndexOf(s, "&", 1)
             head == IF i = 0 THEN s ELSE SubSeq(s, 1, i - 1)
             tail == IF i = 0 THEN <<>> ELSE SubSeq(s, i + 1, Len(s))
         IN  IF Len(head) = 0 THEN SplitAmp(tail)
             ELSE <<head>> \o SplitAmp(tail)

\* percent-decoding of one token ('+' and %20 are a space)
DecodeToken(t) == IF t = "%20" \/ t = "+" THEN " " ELSE t

Decode(s) == [i \in 1..Len(s) |-> DecodeToken(s[i])]

\* one piece `name=value` as a decoded pair; no '=' is an empty value
ParsePair(piece) ==
    LET i == IndexOf(piece, "=", 1)
    IN  IF i = 0 THEN [k |-> Decode(piece), v |-> <<>>]
        ELSE [k |-> Decode(SubSeq(piece, 1, i - 1)),
              v |-> Decode(SubSeq(piece, i + 1, Len(piece)))]

\* new URLSearchParams(hash)
URLSearchParams(s) ==
    LET pieces == SplitAmp(s) IN [i \in 1..Len(pieces) |-> ParsePair(pieces[i])]

\* params.has(name)
ParamsHas(params, name) == \E i \in 1..Len(params) : params[i].k = <<name>>

\* params.get(name): the first value, or null
ParamsGet(params, name) ==
    IF ParamsHas(params, name)
    THEN LET i == CHOOSE j \in 1..Len(params) :
                    /\ params[j].k = <<name>>
                    /\ \A l \in 1..(j - 1) : params[l].k # <<name>>
         IN  Str(params[i].v)
    ELSE Null

Digits == <<"0", "1", "2", "3", "4", "5", "6", "7", "8", "9">>

DigitValue(c) == (CHOOSE d \in 1..10 : Digits[d] = c) - 1

IsDigit(c) == \E d \in 1..10 : Digits[d] = c

RECURSIVE DecimalValue(_)
DecimalValue(s) ==
    IF Len(s) = 0 THEN 0
    ELSE 10 * DecimalValue(SubSeq(s, 1, Len(s) - 1)) + DigitValue(s[Len(s)])

\* Number(str) on strings of the tokens used here: the empty string is 0,
\* a string of digits its decimal value, anything else NaN
Number(s) ==
    IF \A i \in 1..Len(s) : IsDigit(s[i]) THEN Num(DecimalValue(s)) ELSE NaN

-----------------------------------------------------------------------------
(* Responses of the portal *)

\* A response: the markers its final URL includes, the URL's fragment, and
\* of its markup the texts of the .field_prefix elements, in document order.
Page(includes, hash, labels) ==
    [includes |-> includes, hash |-> hash, labels |-> labels]

\* a response whose page has no .field_prefix element
Url(includes, hash) == Page(includes, hash, <<>>)

\* url.includes(marker)
Includes(url, marker) == marker \in url.includes

HashToken == <<"#", "access_token", "=", "tok123">>

HashTokenUser == HashToken \o <<"&", "user_id", "=", "4", "2">>

HashTokenEmptyUser == HashToken \o <<"&", "user_id", "=">>

HashTokenBadUser == HashToken \o <<"&", "user_id", "=", "4", "x">>

HashError ==
    <<"#", "error", "=", "access_denied", "&",
      "error_description", "=", "User", "%20", "denied">>

HashErrorOnly == <<"#", "error", "=", "access_denied">>

HashErrorEmptyDescription ==
    <<"#", "error", "=", "access_denied", "&", "error_description", "=">>

HashErrorWithToken ==
    <<"#", "access_token", "=", "tok123", "&", "user_id", "=", "4", "2", "&",
      "error", "=">>

\* terminal URLs: the blank callback with each fragment, alone or together
\* with an action marker in the same URL
TerminalUrls ==
    { Url({CALLBACK_BLANK}, h) :
        h \in {<<>>, HashToken, HashTokenUser, HashTokenEmptyUser,
               HashTokenBadUser, HashError, HashErrorOnly,
               HashErrorEmptyDescription, HashErrorWithToken} }
    \cup { Url({CALLBACK_BLANK, ACTION_AUTH_CODE}, HashTokenUser),
           Url({CALLBACK_BLANK, ACTION_CAPTCHA}, HashError) }

\* challenge pages, pages no marker matches, and URLs with two markers
PageUrls ==
    { Url(m, <<>>) :
        m \in { {ACTION_AUTH_CODE}, {ACTION_SECURITY_CODE}, {ACTION_VALIDATE},
                {ACTION_CAPTCHA}, {},
                {ACTION_AUTH_CODE, ACTION_CAPTCHA},
                {ACTION_SECURITY_CODE, ACTION_VALIDATE} } }

\* security pages with their masked-phone labels: "+71" and "90"; a single
\* label " +7 ", which is first and last; an empty first label and a last
\* label of four characters
SecurityPages ==
    { Page({ACTION_SECURITY_CODE}, <<>>, l) :
        l \in { << <<"+", "7", "1">>, <<"9", "0">> >>,
                << <<" ", "+", "7", " ">> >>,
                << <<>>, <<"*", "*", "9", "0">> >> } }
    \cup { Url({ACTION_AUTH_CODE, ACTION_SECURITY_CODE}, <<>>) }

Urls == TerminalUrls \cup PageUrls \cup SecurityPages

NoResponse == Url({}, <<"none">>)

\* Classify with the security marker sent to the two-factor branch
ClassifySecurityAsTwoFactor(url) ==
    IF Includes(url, CALLBACK_BLANK) THEN "Terminal"
    ELSE IF Includes(url, ACTION_AUTH_CODE) THEN "TwoFactor"
    ELSE IF Includes(url, ACTION_SECURITY_CODE) THEN "TwoFactor"
    ELSE IF Includes(url, ACTION_VALIDATE) THEN "PhoneValidation"
    ELSE IF Includes(url, ACTION_CAPTCHA) THEN "Captcha"
    ELSE "Unknown"

\* Classify with the action markers tested before the blank callback
ClassifyMarkersFirst(url) ==
    IF Includes(url, ACTION_AUTH_CODE) THEN "TwoFactor"
    ELSE IF Includes(url, ACTION_SECURITY_CODE) THEN "SecurityCode"
    ELSE IF Includes(url, ACTION_VALIDATE) THEN "PhoneValidation"
    ELSE IF Includes(url, ACTION_CAPTCHA) THEN "Captcha"
    ELSE IF Includes(url, CALLBACK_BLANK) THEN "Terminal"
    ELSE "Unknown"

\* Classify with the last branch taken whenever no earlier marker matched
ClassifyDefaultCaptcha(url) ==
    IF Includes(url, CALLBACK_BLANK) THEN "Terminal"
    ELSE IF Includes(url, ACTION_AUTH_CODE) THEN "TwoFactor"
    ELSE IF Includes(url, ACTION_SECURITY_CODE) THEN "SecurityCode"
    ELSE IF Includes(url, ACTION_VALIDATE) THEN "PhoneValidation"
    ELSE "Captcha"

\* The branch the loop of run() takes on a response: the blank callback is
\* tested first, then the action markers in the order of the code.
Classify(url) ==
    IF Includes(url, CALLBACK_BLANK) THEN "Terminal"
    ELSE IF Includes(url, ACTION_AUTH_CODE) THEN "TwoFactor"
    ELSE IF Includes(url, ACTION_SECURITY_CODE) THEN "SecurityCode"
    ELSE IF Includes(url, ACTION_VALIDATE) THEN "PhoneValidation"
    ELSE IF Includes(url, ACTION_CAPTCHA) THEN "Captcha"
    ELSE "Unknown"

\* value || fallback for a string or null
OrElse(value, fallback) ==
    IF value = Null \/ value = Str(<<>>) THEN fallback ELSE value

NoResult == [type |-> "none"]

Throw(error) == [type |-> "throw", error |-> error]

Return(value) == [type |-> "return", value |-> value]

\* the message of the error thrown on a terminal URL with an `error`
GrantMessage(params) ==
    Str(<<"Failed passed grant access: ">>
        \o OrElse(ParamsGet(params, "error_description"),
                  Str(<<"Unknown error">>)).s)

\* TerminalOutcome with the access_token looked at before `error`
TerminalOutcomeTokenFirst(url) ==
    LET params == URLSearchParams(StripHash(url.hash))
        user == ParamsGet(params, "user_id")
    IN  IF ParamsHas(params, "error") /\ ~ParamsHas(params, "access_token")
        THEN Throw(AuthorizationError(GrantMessage(params),
                                      AUTHORIZATION_FAILED, Undefined))
        ELSE Return([user |-> IF user # Null THEN Number(user.s) ELSE Undefined,
                     token |-> ParamsGet(params, "access_token")])

\* What run() does with a URL that includes the blank callback.
TerminalOutcome(url) ==
    LET params == URLSearchParams(StripHash(url.hash))
        user == ParamsGet(params, "user_id")
    IN  IF ParamsHas(params, "error")
        THEN Throw(AuthorizationError(GrantMessage(params),
                                      AUTHORIZATION_FAILED, Undefined))
        ELSE Return([user |-> IF user # Null THEN Number(user.s) ELSE Undefined,
                     token |-> ParamsGet(params, "access_token")])

\* TerminalOutcome on every URL of the portal that includes the blank
\* callback, evaluated once
TerminalResults ==
    [url \in {u \in Urls : Includes(u, CALLBACK_BLANK)} |-> TerminalOutcome(url)]

-----------------------------------------------------------------------------
(* Options of the instance *)

PhoneNumber == <<"+", "7", "1", "2", "3", "4", "5", "6", "7", "8", "9", "0">>

EmailLogin == <<"u", "s", "e", "r", "@", "v", "k">>

\* a login that is a phone number, written with blanks and a leading 00
PhoneLogin == <<" ", "0", "0", "7", "9", "1", "5", "5", " ">>

\* vk.options as the constructor reads them: phone is a string or a number
Configs ==
    { [login |-> Undefined, phone |-> Str(PhoneNumber)],
      [login |-> Str(EmailLogin), phone |-> Undefined],
      [login |-> Str(PhoneLogin), phone |-> Undefined],
      [login |-> Str(EmailLogin), phone |-> Num(123)],
      [login |-> Undefined, phone |-> Undefined] }

\* login.includes('@')
HasAt(login) == \E i \in 1..Len(login.s) : login.s[i] = "@"
\* PhoneCandidate taking the login whether or not it holds an '@'
PhoneCandidateAnyLogin(opts) ==
    IF opts.phone # Undefined THEN opts.phone
    ELSE IF opts.login # Undefined THEN opts.login
    ELSE Undefined

\* the phone candidate of processSecurityForm, Undefined where it throws
PhoneCandidate(opts) ==
    IF opts.phone # Undefined THEN opts.phone
    ELSE IF opts.login # Undefined /\ ~HasAt(opts.login) THEN opts.login
    ELSE Undefined

\* s.trim() for the blank
Trim(s) ==
    LET solid == {i \in 1..Len(s) : s[i] # " "}
    IN  IF solid = {} THEN <<>>
        ELSE SubSeq(s, CHOOSE i \in solid : \A j \in solid : i <= j,
                       CHOOSE i \in solid : \A j \in solid : i >= j)
\* StripLead leaving the number as written
StripLeadNothing(s) == s

\* s.replace(/^(\+|00)/, '')
StripLead(s) ==
    IF Len(s) >= 1 /\ s[1] = "+" THEN SubSeq(s, 2, Len(s))
    ELSE IF Len(s) >= 2 /\ s[1] = "0" /\ s[2] = "0" THEN SubSeq(s, 3, Len(s))
    ELSE s

\* s.replace('+', ''): the first '+' of s, wherever it is
RemovePlus(s) ==
    LET i == IndexOf(s, "+", 1)
    IN  IF i = 0 THEN s ELSE SubSeq(s, 1, i - 1) \o SubSeq(s, i + 1, Len(s))

RECURSIVE DigitsOf(_)
\* the decimal digits of a natural number
DigitsOf(n) ==
    IF n < 10 THEN <<Digits[n + 1]>>
    ELSE DigitsOf(n \div 10) \o <<Digits[(n % 10) + 1]>>

\* String(value) for a string or a natural number
StringOf(value) == IF value.t = "number" THEN DigitsOf(value.n) ELSE value.s

\* an index argument of slice brought into 0..len
SliceIndex(k, len) ==
    IF k < 0 THEN (IF len + k < 0 THEN 0 ELSE len + k)
    ELSE IF k > len THEN len ELSE k

\* s.slice(start, end)
Slice(s, start, end) ==
    LET from == SliceIndex(start, Len(s))
        to == SliceIndex(end, Len(s))
    IN  IF from < to THEN SubSeq(s, from + 1, to) ELSE <<>>

\* $field.first().text() / $field.last().text(): "" without an element
FirstText(page) == IF Len(page.labels) = 0 THEN <<>> ELSE page.labels[1]

LastText(page) ==
    IF Len(page.labels) = 0 THEN <<>> ELSE page.labels[Len(page.labels)]

\* the number of processSecurityForm after normalisation and String()
NormalNumber(candidate) ==
    StringOf(IF candidate.t = "string"
             THEN Str(StripLead(Trim(candidate.s)))
             ELSE candidate)
\* SecurityCode measuring the labels without trimming them
SecurityCodeUntrimmed(candidate, page) ==
    LET number == NormalNumber(candidate)
        prefix == Len(RemovePlus(FirstText(page)))
        postfix == Len(LastText(page))
    IN  Slice(number, prefix, Len(number) - postfix)

\* fields.code of processSecurityForm for a phone candidate and a page
SecurityCode(candidate, page) ==
    LET number == NormalNumber(candidate)
        prefix == Len(RemovePlus(Trim(FirstText(page))))
        postfix == Len(Trim(LastText(page)))
    IN  Slice(number, prefix, Len(number) - postfix)

\* SecurityCode for every option set with a candidate and every page
SecurityCodes ==
    [o \in {c \in Configs : PhoneCandidate(c) # Undefined}, u \in Urls |->
        SecurityCode(PhoneCandidate(o), u)]

-----------------------------------------------------------------------------
(* Validation handles *)

\* the { resolve, reject } pair the callback service returns with an answer
NewHandle(kind) == [kind |-> kind, status |-> "open", error |-> NoError]

\* validate.reject(error): settles the handle once
RejectHandle(hs, h, error) ==
    IF hs[h].status = "open"
    THEN [hs EXCEPT ![h].status = "rejected", ![h].error = error]
    ELSE hs

\* entries of ev
FetchCall(method) == [op |-> "fetch", method |-> method]

RejectCall(h, error) == [op |-> "reject", handle |-> h, error |-> error]

RequestCall(kind) == [op |-> "request", kind |-> kind]

\* the POST of a form with its code field
PostCode(code) == [op |-> "fetch", method |-> "POST", code |-> code]

\* history: the response a fetch has returned, where the step drops it
ResponseEvent(r) == [op |-> "response", url |-> r]

\* The portal's answers are limited to what the handle bound lets the
\* handlers process: a page that asks for a new handle needs a free one.
Admissible(r) ==
    Classify(r) \in {"TwoFactor", "Captcha"} => Len(handles) < MaxHandles

-----------------------------------------------------------------------------
(* The instance after its constructor *)

Init ==
    /\ pc = "idle"
    /\ response = NoResponse
    /\ result = NoResult
    /\ options \in Configs
    /\ captchaValidate = NoHandle
    /\ captchaAttempts = 0
    /\ twoFactorValidate = NoHandle
    /\ twoFactorAttempts = 0
    /\ validate = NoHandle
    /\ handles = <<>>
    /\ runs = 0
    /\ runBase = 0
    /\ tfChain = 0
    /\ captchaAnswer = <<>>
    /\ ev = <<>>

-----------------------------------------------------------------------------
(* run() *)

\* run(redirectUri) is called: the initial GET is sent
Run ==
    /\ pc \in {"idle", "done"}
    /\ runs < MaxRuns
    /\ runs' = runs + 1
    /\ pc' = "get"
    /\ response' = NoResponse
    /\ result' = NoResult
    /\ validate' = NoHandle
    /\ runBase' = Len(handles)
    /\ tfChain' = 0
    /\ captchaAnswer' = <<>>
    /\ ev' = <<FetchCall("GET")>>
    /\ UNCHANGED <<options, captchaValidate, captchaAttempts,
                   twoFactorValidate, twoFactorAttempts, handles>>

\* the initial GET returns
GetReturn ==
    /\ pc = "get"
    /\ \E r \in Urls : Admissible(r) /\ response' = r
    /\ pc' = "loop"
    /\ ev' = <<>>
    /\ UNCHANGED <<result, options, captchaValidate, captchaAttempts,
                   twoFactorValidate, twoFactorAttempts, validate, handles,
                   runs, runBase, tfChain, captchaAnswer>>

\* the initial GET fails
GetFail ==
    /\ pc = "get"
    /\ pc' = "done"
    /\ \E error \in FetchErrors : result' = Throw(error)
    /\ ev' = <<>>
    /\ UNCHANGED <<response, options, captchaValidate, captchaAttempts,
                   twoFactorValidate, twoFactorAttempts, validate, handles,
                   runs, runBase, tfChain, captchaAnswer>>

\* the loop sees the blank callback: run() returns or throws
RunTerminal ==
    /\ pc = "loop"
    /\ Classify(response) = "Terminal"
    /\ pc' = "done"
    /\ result' = TerminalResults[response]
    /\ tfChain' = 0
    /\ ev' = <<>>
    /\ UNCHANGED <<response, options, captchaValidate, captchaAttempts,
                   twoFactorValidate, twoFactorAttempts, validate, handles,
                   runs, runBase, captchaAnswer>>

\* RunUnknown with the entry URL fetched again instead of the throw
RunUnknownRefetch ==
    /\ pc = "loop"
    /\ Classify(response) = "Unknown"
    /\ pc' = "get"
    /\ tfChain' = 0
    /\ ev' = <<FetchCall("GET")>>
    /\ UNCHANGED <<response, result, options, captchaValidate, captchaAttempts,
                   twoFactorValidate, twoFactorAttempts, validate, handles,
                   runs, runBase, captchaAnswer>>

\* the loop sees a page no marker matches
RunUnknown ==
    /\ pc = "loop"
    /\ Classify(response) = "Unknown"
    /\ pc' = "done"
    /\ result' = Throw(AuthorizationError(Str(<<"Account verification failed">>),
                                          AUTHORIZATION_FAILED, Undefined))
    /\ tfChain' = 0
    /\ ev' = <<>>
    /\ UNCHANGED <<response, options, captchaValidate, captchaAttempts,
                   twoFactorValidate, twoFactorAttempts, validate, handles,
                   runs, runBase, captchaAnswer>>

-----------------------------------------------------------------------------
(* processTwoFactorForm *)

\* if (this.twoFactorValidate)
TwoFactorStale(stored) == stored # NoHandle

\* if (this.twoFactorAttempts >= TWO_FACTOR_ATTEMPTS)
TwoFactorExhausted(attempts) == attempts >= TWO_FACTOR_ATTEMPTS

IncorrectTwoFactor(page) ==
    AuthorizationError(Str(<<"Incorrect two-factor code">>),
                       FAILED_PASSED_TWO_FACTOR, page)

FailedTwoFactor ==
    AuthorizationError(Str(<<"Failed passed two-factor authentication">>),
                       FAILED_PASSED_TWO_FACTOR, Undefined)

\* The loop sees a two-factor page: the handler rejects the stored handle,
\* counts the attempt, and either throws or asks the callback service for a
\* code.  The stored handle is not cleared here.
TwoFactorEnter ==
    /\ pc = "loop"
    /\ Classify(response) = "TwoFactor"
    /\ LET stale == TwoFactorStale(twoFactorValidate)
           error == IncorrectTwoFactor(response)
           rejects == IF stale THEN <<RejectCall(twoFactorValidate, error)>>
                      ELSE <<>>
           attempts == IF stale THEN twoFactorAttempts + 1
                       ELSE twoFactorAttempts
       IN  /\ handles' = IF stale
                         THEN RejectHandle(handles, twoFactorValidate, error)
                         ELSE handles
           /\ twoFactorAttempts' = attempts
           /\ IF TwoFactorExhausted(attempts)
              THEN /\ pc' = "done"
                   /\ result' = Throw(FailedTwoFactor)
                   /\ tfChain' = tfChain
                   /\ ev' = rejects
              ELSE /\ pc' = "twoFactor"
                   /\ result' = result
                   /\ tfChain' = tfChain + 1
                   /\ ev' = rejects \o <<RequestCall("TwoFactor")>>
    /\ UNCHANGED <<response, options, captchaValidate, captchaAttempts,
                   twoFactorValidate, validate, runs, runBase, captchaAnswer>>

\* processingTwoFactor returns { code, validate }: the code is put in the
\* form and the form is posted.  The handle stays in the local `validate`;
\* this.twoFactorValidate is not assigned.
TwoFactorCode ==
    /\ pc = "twoFactor"
    /\ handles' = Append(handles, NewHandle("TwoFactor"))
    /\ validate' = Len(handles) + 1
    /\ pc' = "twoFactorPost"
    /\ ev' = <<FetchCall("POST")>>
    /\ UNCHANGED <<response, result, options, captchaValidate, captchaAttempts,
                   twoFactorValidate, twoFactorAttempts, runs, runBase,
                   tfChain, captchaAnswer>>

\* processingTwoFactor rejects
TwoFactorRequestFail ==
    /\ pc = "twoFactor"
    /\ pc' = "done"
    /\ result' = Throw(ValidatorError)
    /\ ev' = <<>>
    /\ UNCHANGED <<response, options, captchaValidate, captchaAttempts,
                   twoFactorValidate, twoFactorAttempts, validate, handles,
                   runs, runBase, tfChain, captchaAnswer>>

\* the POST of the code returns: the handler returns the new response
TwoFactorPostReturn ==
    /\ pc = "twoFactorPost"
    /\ \E r \in Urls :
        /\ Admissible(r)
        /\ response' = r
    /\ pc' = "loop"
    /\ validate' = NoHandle
    /\ ev' = <<>>
    /\ UNCHANGED <<result, options, captchaValidate, captchaAttempts,
                   twoFactorValidate, twoFactorAttempts, handles, runs,
                   runBase, tfChain, captchaAnswer>>

\* TwoFactorPostFail letting the error pass without rejecting the handle
TwoFactorPostFailUncaught ==
    /\ pc = "twoFactorPost"
    /\ \E error \in FetchErrors : result' = Throw(error)
    /\ pc' = "done"
    /\ validate' = NoHandle
    /\ ev' = <<>>
    /\ UNCHANGED <<response, options, captchaValidate, captchaAttempts,
                   twoFactorValidate, twoFactorAttempts, handles, runs,
                   runBase, tfChain, captchaAnswer>>

\* the POST of the code fails: catch, validate.reject(error), throw error
TwoFactorPostFail ==
    /\ pc = "twoFactorPost"
    /\ \E error \in FetchErrors :
        /\ handles' = RejectHandle(handles, validate, error)
        /\ result' = Throw(error)
        /\ ev' = <<RejectCall(validate, error)>>
    /\ pc' = "done"
    /\ validate' = NoHandle
    /\ UNCHANGED <<response, options, captchaValidate, captchaAttempts,
                   twoFactorValidate, twoFactorAttempts, runs, runBase,
                   tfChain, captchaAnswer>>

-----------------------------------------------------------------------------
(* processSecurityForm *)

MissingPhone ==
    AuthorizationError(
        Str(<<"Missing phone number in the phone or login field">>),
        INVALID_PHONE_NUMBER, Undefined)

InvalidPhone ==
    AuthorizationError(Str(<<"Invalid phone number">>),
                       INVALID_PHONE_NUMBER, Undefined)

\* The loop sees a security page: without a phone candidate the handler
\* throws, otherwise it posts the form.
SecurityEnter ==
    /\ pc = "loop"
    /\ Classify(response) = "SecurityCode"
    /\ IF PhoneCandidate(options) = Undefined
       THEN /\ pc' = "done"
            /\ result' = Throw(MissingPhone)
            /\ ev' = <<>>
       ELSE /\ pc' = "securityPost"
            /\ result' = result
            /\ ev' = <<PostCode(SecurityCodes[options, response])>>
    /\ tfChain' = 0
    /\ UNCHANGED <<response, options, captchaValidate, captchaAttempts,
                   twoFactorValidate, twoFactorAttempts, validate, handles,
                   runs, runBase, captchaAnswer>>
\* SecurityPostReturn handing every response back to the loop
SecurityPostReturnReenter ==
    /\ pc = "securityPost"
    /\ \E r \in Urls :
        /\ Admissible(r)
        /\ pc' = "loop"
        /\ result' = result
        /\ response' = r
        /\ ev' = <<>>
    /\ UNCHANGED <<options, captchaValidate, captchaAttempts,
                   twoFactorValidate, twoFactorAttempts, validate, handles,
                   runs, runBase, tfChain, captchaAnswer>>

\* the POST returns: a URL that still includes the security marker throws
SecurityPostReturn ==
    /\ pc = "securityPost"
    /\ \E r \in Urls :
        /\ Admissible(r)
        /\ IF Includes(r, ACTION_SECURITY_CODE)
           THEN /\ pc' = "done"
                /\ result' = Throw(InvalidPhone)
                /\ response' = response
                /\ ev' = <<ResponseEvent(r)>>
           ELSE /\ pc' = "loop"
                /\ result' = result
                /\ response' = r
                /\ ev' = <<>>
    /\ UNCHANGED <<options, captchaValidate, captchaAttempts,
                   twoFactorValidate, twoFactorAttempts, validate, handles,
                   runs, runBase, tfChain, captchaAnswer>>

SecurityPostFail ==
    /\ pc = "securityPost"
    /\ pc' = "done"
    /\ \E error \in FetchErrors : result' = Throw(error)
    /\ ev' = <<>>
    /\ UNCHANGED <<response, options, captchaValidate, captchaAttempts,
                   twoFactorValidate, twoFactorAttempts, validate, handles,
                   runs, runBase, tfChain, captchaAnswer>>

-----------------------------------------------------------------------------
(* processValidateForm *)
\* ValidateEnter starting the captcha count afresh
ValidateEnterReset ==
    /\ pc = "loop"
    /\ Classify(response) = "PhoneValidation"
    /\ pc' = "validateGet"
    /\ tfChain' = 0
    /\ captchaAttempts' = 0
    /\ ev' = <<FetchCall("GET")>>
    /\ UNCHANGED <<response, result, options, captchaValidate,
                   twoFactorValidate, twoFactorAttempts, validate, handles,
                   runs, runBase, captchaAnswer>>

\* the loop sees a validate page: the activation link is fetched
ValidateEnter ==
    /\ pc = "loop"
    /\ Classify(response) = "PhoneValidation"
    /\ pc' = "validateGet"
    /\ tfChain' = 0
    /\ ev' = <<FetchCall("GET")>>
    /\ UNCHANGED <<response, result, options, captchaValidate, captchaAttempts,
                   twoFactorValidate, twoFactorAttempts, validate, handles,
                   runs, runBase, captchaAnswer>>

ValidateGetReturn ==
    /\ pc = "validateGet"
    /\ \E r \in Urls : Admissible(r) /\ response' = r
    /\ pc' = "loop"
    /\ ev' = <<>>
    /\ UNCHANGED <<result, options, captchaValidate, captchaAttempts,
                   twoFactorValidate, twoFactorAttempts, validate, handles,
                   runs, runBase, tfChain, captchaAnswer>>

ValidateGetFail ==
    /\ pc = "validateGet"
    /\ pc' = "done"
    /\ \E error \in FetchErrors : result' = Throw(error)
    /\ ev' = <<>>
    /\ UNCHANGED <<response, options, captchaValidate, captchaAttempts,
                   twoFactorValidate, twoFactorAttempts, validate, handles,
                   runs, runBase, tfChain, captchaAnswer>>

-----------------------------------------------------------------------------
(* processCaptchaForm *)

\* CaptchaStale with the stored handle never seen
CaptchaStaleNever(stored) == FALSE

\* if (this.captchaValidate !== undefined)
CaptchaStale(stored) == stored # NoHandle

IncorrectCaptcha ==
    AuthorizationError(Str(<<"Incorrect captcha code">>),
                       FAILED_PASSED_CAPTCHA, Undefined)
\* CaptchaEnter giving up after as many attempts as the two-factor handler
CaptchaEnterCapped ==
    /\ pc = "loop"
    /\ Classify(response) = "Captcha"
    /\ LET stale == CaptchaStale(captchaValidate)
           attempts == IF stale THEN captchaAttempts + 1
                       ELSE captchaAttempts
           rejects == IF stale
                      THEN <<RejectCall(captchaValidate, IncorrectCaptcha)>>
                      ELSE <<>>
       IN  /\ handles' = IF stale
                         THEN RejectHandle(handles, captchaValidate,
                                           IncorrectCaptcha)
                         ELSE handles
           /\ captchaValidate' = IF stale THEN NoHandle ELSE captchaValidate
           /\ captchaAnswer' = <<>>
           /\ captchaAttempts' = attempts
           /\ IF attempts >= TWO_FACTOR_ATTEMPTS
              THEN /\ pc' = "done"
                   /\ result' = Throw(AuthorizationError(
                                    Str(<<"Failed passed captcha">>),
                                    FAILED_PASSED_CAPTCHA, Undefined))
                   /\ ev' = rejects
              ELSE /\ pc' = "captcha"
                   /\ result' = result
                   /\ ev' = rejects \o <<RequestCall("Captcha")>>
    /\ tfChain' = 0
    /\ UNCHANGED <<response, options, twoFactorValidate, twoFactorAttempts,
                   validate, runs, runBase>>

\* The loop sees a captcha page: the handler rejects and clears the stored
\* handle, counts the attempt, and asks the callback service for a key.
CaptchaEnter ==
    /\ pc = "loop"
    /\ Classify(response) = "Captcha"
    /\ LET stale == CaptchaStale(captchaValidate)
       IN  /\ handles' = IF stale
                         THEN RejectHandle(handles, captchaValidate,
                                           IncorrectCaptcha)
                         ELSE handles
           /\ captchaValidate' = IF stale THEN NoHandle ELSE captchaValidate
           /\ captchaAnswer' = <<>>
           /\ captchaAttempts' = IF stale THEN captchaAttempts + 1
                                 ELSE captchaAttempts
           /\ ev' = (IF stale
                     THEN <<RejectCall(captchaValidate, IncorrectCaptcha)>>
                     ELSE <<>>) \o <<RequestCall("Captcha")>>
    /\ pc' = "captcha"
    /\ tfChain' = 0
    /\ UNCHANGED <<response, result, options, twoFactorValidate,
                   twoFactorAttempts, validate, runs, runBase>>

\* processingCaptcha returns { key, validate }: the handle is stored, the
\* key is put in the form and the form is posted
CaptchaKey ==
    /\ pc = "captcha"
    /\ handles' = Append(handles, NewHandle("Captcha"))
    /\ captchaValidate' = Len(handles) + 1
    /\ captchaAnswer' = <<>>
    /\ pc' = "captchaPost"
    /\ ev' = <<FetchCall("POST")>>
    /\ UNCHANGED <<response, result, options, captchaAttempts,
                   twoFactorValidate, twoFactorAttempts, validate, runs,
                   runBase, tfChain>>

\* processingCaptcha rejects
CaptchaRequestFail ==
    /\ pc = "captcha"
    /\ pc' = "done"
    /\ result' = Throw(ValidatorError)
    /\ ev' = <<>>
    /\ UNCHANGED <<response, options, captchaValidate, captchaAttempts,
                   twoFactorValidate, twoFactorAttempts, validate, handles,
                   runs, runBase, tfChain, captchaAnswer>>

\* the POST of the key returns: the handler returns the new response
CaptchaPostReturn ==
    /\ pc = "captchaPost"
    /\ \E r \in Urls :
        /\ Admissible(r)
        /\ response' = r
        /\ captchaAnswer' = <<Classify(r) = "Captcha">>
    /\ pc' = "loop"
    /\ ev' = <<>>
    /\ UNCHANGED <<result, options, captchaValidate, captchaAttempts,
                   twoFactorValidate, twoFactorAttempts, validate, handles,
                   runs, runBase, tfChain>>

\* the POST of the key fails: the error leaves the handler as it is
CaptchaPostFail ==
    /\ pc = "captchaPost"
    /\ pc' = "done"
    /\ \E error \in FetchErrors : result' = Throw(error)
    /\ ev' = <<>>
    /\ UNCHANGED <<response, options, captchaValidate, captchaAttempts,
                   twoFactorValidate, twoFactorAttempts, validate, handles,
                   runs, runBase, tfChain, captchaAnswer>>

-----------------------------------------------------------------------------
(* Specifications *)

\* a step of a run that is under way
RunStep ==
    \/ GetReturn
    \/ GetFail
    \/ RunTerminal
    \/ RunUnknown
    \/ TwoFactorEnter
    \/ TwoFactorCode
    \/ TwoFactorRequestFail
    \/ TwoFactorPostReturn
    \/ TwoFactorPostFail
    \/ SecurityEnter
    \/ SecurityPostReturn
    \/ SecurityPostFail
    \/ ValidateEnter
    \/ ValidateGetReturn
    \/ ValidateGetFail
    \/ CaptchaEnter
    \/ CaptchaKey
    \/ CaptchaRequestFail
    \/ CaptchaPostReturn
    \/ CaptchaPostFail

Next == Run \/ RunStep

Spec == Init /\ [][Next]_vars

\* The option sets of the liveness specification: one with a number to
\* post on a security page and one without; which digits are posted does
\* not bear on how the loop goes on.
FairConfigs ==
    { [login |-> Undefined, phone |-> Str(PhoneNumber)],
      [login |-> Str(EmailLogin), phone |-> Undefined] }

FairInit == Init /\ options \in FairConfigs

\* Every await of a run that is under way completes: the fetch returns or
\* fails, the callback service answers or rejects.
FairSpec == FairInit /\ [][Next]_vars /\ WF_vars(RunStep)

-----------------------------------------------------------------------------
(* Vocabulary of the properties *)

\* run() has ended by throwing an AuthorizationError of this code
ThrewCode(res, code) ==
    /\ res.type = "throw"
    /\ res.error.name = "AuthorizationError"
    /\ res.error.code = code

\* handles of a kind that are neither resolved nor rejected
OpenHandles(kind) ==
    { i \in DOMAIN handles :
        handles[i].kind = kind /\ handles[i].status = "open" }

\* the URL is one the classifier takes for a two-factor page
TwoFactorUrl(url) ==
    ACTION_AUTH_CODE \in url.includes /\ CALLBACK_BLANK \notin url.includes

-----------------------------------------------------------------------------
(* C1 *)

\* C1: while the portal answers every two-factor submission with another
\* two-factor page, at most three codes are requested from the callback
\* service, and run() throws FAILED_PASSED_TWO_FACTOR only after the third.
C1_ThreeCodesThenFail ==
    /\ tfChain <= TWO_FACTOR_ATTEMPTS
    /\ ThrewCode(result, FAILED_PASSED_TWO_FACTOR)
         => tfChain = TWO_FACTOR_ATTEMPTS

-----------------------------------------------------------------------------
(* C2 *)

\* C2: at every point, at most one handle of each kind is open.
C2_OneOpenHandlePerKind ==
    /\ Cardinality(OpenHandles("TwoFactor")) <= 1
    /\ Cardinality(OpenHandles("Captcha")) <= 1

-----------------------------------------------------------------------------
(* C3 *)

\* a step that enters the captcha handler
CaptchaEntered == pc = "loop" /\ pc' = "captcha"

\* the calls of a step that enters the captcha handler with a handle stored:
\* one reject of that handle, with FAILED_PASSED_CAPTCHA, then the request
C3_RejectThenRequest ==
    /\ handles[captchaValidate].kind = "Captcha"
    /\ handles[captchaValidate].status = "open"
    /\ Len(ev') = 2
    /\ ev'[1].op = "reject"
    /\ ev'[1].handle = captchaValidate
    /\ ev'[1].error.code = FAILED_PASSED_CAPTCHA
    /\ ev'[2] = RequestCall("Captcha")
    /\ handles'[captchaValidate].status = "rejected"
    /\ handles'[captchaValidate].error.code = FAILED_PASSED_CAPTCHA

C3_Step ==
    /\ CaptchaEntered /\ captchaValidate # NoHandle => C3_RejectThenRequest
    /\ CaptchaEntered /\ captchaValidate = NoHandle
         => ev' = <<RequestCall("Captcha")>>
    /\ ~CaptchaEntered
         => \A i \in 1..Len(ev') :
              /\ ev'[i] # RequestCall("Captcha")
              /\ ev'[i].op = "reject"
                   => handles[ev'[i].handle].kind # "Captcha"

\* C3: whenever the captcha handler is entered while a captcha handle is
\* stored, that handle (still open) is rejected with FAILED_PASSED_CAPTCHA
\* before the next captcha request; captcha handles are rejected nowhere
\* else, so exactly one reject of the previous handle lies between two
\* consecutive captcha requests.
C3_CaptchaRejectBeforeRequest == [][C3_Step]_vars

\* a captcha request has just been sent after the reject of the stored handle
C3_Witness ==
    /\ pc = "captcha"
    /\ Len(ev) = 2
    /\ ev[1].op = "reject"
    /\ ev[2] = RequestCall("Captcha")
    /\ handles[ev[1].handle].status = "rejected"

-----------------------------------------------------------------------------
(* C4 *)

\* C4: when run() has ended, no handle issued during that run is open.
C4_NoOpenHandleAtEnd ==
    pc = "done"
      => \A i \in (runBase + 1)..Len(handles) : handles[i].status # "open"

-----------------------------------------------------------------------------
(* C5 *)

\* C5: when run() has ended with the error of a failed fetch, no handle of
\* either kind is open.
C5_TransportFailureRejectsAll ==
    result \in {Throw(error) : error \in FetchErrors}
      => /\ pc = "done"
         /\ OpenHandles("TwoFactor") = {}
         /\ OpenHandles("Captcha") = {}

-----------------------------------------------------------------------------
(* C6 *)

\* where the loop goes on a URL that is not a two-factor page, read off the
\* markers of the URL
C6_Dispatched ==
    IF CALLBACK_BLANK \in response.includes
    THEN /\ pc' = "done"
         /\ \/ result'.type = "return"
            \/ ThrewCode(result', AUTHORIZATION_FAILED)
    ELSE IF ACTION_SECURITY_CODE \in response.includes
    THEN \/ pc' = "securityPost" /\ result' = NoResult
         \/ pc' = "done" /\ ThrewCode(result', INVALID_PHONE_NUMBER)
    ELSE IF ACTION_VALIDATE \in response.includes
    THEN pc' = "validateGet" /\ result' = NoResult
    ELSE IF ACTION_CAPTCHA \in response.includes
    THEN pc' = "captcha" /\ result' = NoResult
    ELSE pc' = "done" /\ ThrewCode(result', AUTHORIZATION_FAILED)

C6_Step ==
    /\ pc = "twoFactorPost" /\ tfChain \in {1, 2}
         => \/ pc' = "loop" /\ response' \in Urls /\ result' = NoResult
            \/ pc' = "done" /\ result' \in {Throw(error) : error \in FetchErrors}
    /\ pc = "loop" /\ tfChain \in {1, 2} /\ ~TwoFactorUrl(response)
         => /\ ~ThrewCode(result', FAILED_PASSED_TWO_FACTOR)
            /\ C6_Dispatched

\* C6: when the first or second code of a chain has been posted and the
\* answer is not a two-factor page, run() does not throw
\* FAILED_PASSED_TWO_FACTOR: the answer becomes the loop's response and the
\* loop goes where the markers of its URL send it.
C6_CorrectCodeAdvances == [][C6_Step]_vars

\* the answer to the second code of a chain is a captcha page
C6_Witness ==
    /\ pc = "loop"
    /\ tfChain = 2
    /\ response.includes = {ACTION_CAPTCHA}

-----------------------------------------------------------------------------
(* C7 *)

\* the URL is a challenge page: an action marker and no blank callback
ChallengeUrl(url) ==
    /\ CALLBACK_BLANK \notin url.includes
    /\ url.includes \cap {ACTION_AUTH_CODE, ACTION_SECURITY_CODE,
                          ACTION_VALIDATE, ACTION_CAPTCHA} # {}

\* C7 as claimed: every run that is under way eventually ends.
C7_EveryRunEnds == (pc \notin {"idle", "done"}) ~> (pc = "done")

\* C7 as amended: a run ends unless the portal presents challenge pages
\* forever: either no run is under way again and again, or the loop is at a
\* challenge page again and again.
C7_EndsUnlessChallenged ==
    \/ []<>(pc \in {"idle", "done"})
    \/ []<>(pc = "loop" /\ ChallengeUrl(response))

\* a run has ended by returning after it went through a challenge
C7_Witness ==
    /\ pc = "done"
    /\ result.type = "return"
    /\ Len(handles) > runBase

-----------------------------------------------------------------------------
(* C8 *)

\* C8: every call of run() starts with both counters 0 and no handle stored.
C8_FreshStateAtRunStart ==
    pc = "get"
      => /\ captchaAttempts = 0
         /\ twoFactorAttempts = 0
         /\ captchaValidate = NoHandle
         /\ twoFactorValidate = NoHandle

-----------------------------------------------------------------------------
(* C9 *)

\* the fragments with an `error` parameter, each with the description the
\* thrown message carries
C9_Description ==
    << <<HashError, <<"User", " ", "denied">> >>,
       <<HashErrorOnly, <<"Unknown error">> >>,
       <<HashErrorEmptyDescription, <<"Unknown error">> >>,
       <<HashErrorWithToken, <<"Unknown error">> >> >>

C9_Step ==
    /\ \A i \in DOMAIN C9_Description :
         pc = "loop" /\ CALLBACK_BLANK \in response.includes
                     /\ response.hash = C9_Description[i][1]
           => /\ pc' = "done"
              /\ ThrewCode(result', AUTHORIZATION_FAILED)
              /\ result'.error.message
                   = Str(<<"Failed passed grant access: ">>
                         \o C9_Description[i][2])
              /\ ev' = <<>>
              /\ handles' = handles
    /\ pc = "done" => pc' = "get" /\ runs' = runs + 1

\* C9: on a URL with the blank callback whose fragment has an `error`,
\* run() throws AUTHORIZATION_FAILED with the decoded error_description (or
\* "Unknown error") in its message, whatever else the fragment or the URL
\* carries, in a step that makes no fetch, no request and no reject; after
\* it only a new call of run() can follow.
C9_TerminalError == [][C9_Step]_vars

\* run() threw on an error fragment that also carries an access_token
C9_Witness ==
    /\ pc = "done"
    /\ response.hash = HashErrorWithToken
    /\ ThrewCode(result, AUTHORIZATION_FAILED)

-----------------------------------------------------------------------------
(* C10 *)

\* the fragments without `error`, each with the user and token returned
C10_Value ==
    << <<HashTokenUser, [user |-> Num(42), token |-> Str(<<"tok123">>)]>>,
       <<HashToken, [user |-> Undefined, token |-> Str(<<"tok123">>)]>>,
       <<HashTokenEmptyUser, [user |-> Num(0), token |-> Str(<<"tok123">>)]>>,
       <<HashTokenBadUser, [user |-> NaN, token |-> Str(<<"tok123">>)]>> >>

C10_Step ==
    \A i \in DOMAIN C10_Value :
      pc = "loop" /\ CALLBACK_BLANK \in response.includes
                  /\ response.hash = C10_Value[i][1]
        => /\ pc' = "done"
           /\ result' = Return(C10_Value[i][2])
           /\ ev' = <<>>

\* C10: on a URL with the blank callback whose fragment has no `error`,
\* run() returns the access_token and the number read from user_id
\* (undefined without user_id), also when the URL includes an action marker.
C10_TerminalSuccess == [][C10_Step]_vars

\* run() returned on a URL that includes the blank callback and a marker
C10_Witness ==
    /\ pc = "done"
    /\ ACTION_AUTH_CODE \in response.includes
    /\ result = Return([user |-> Num(42), token |-> Str(<<"tok123">>)])

-----------------------------------------------------------------------------
(* C11 *)

\* the URL includes neither the blank callback nor any action marker
UnknownUrl(url) ==
    url.includes \cap {CALLBACK_BLANK, ACTION_AUTH_CODE, ACTION_SECURITY_CODE,
                       ACTION_VALIDATE, ACTION_CAPTCHA} = {}

C11_Step ==
    pc = "loop" /\ UnknownUrl(response)
      => /\ pc' = "done"
         /\ result' = Throw(AuthorizationError(
                                Str(<<"Account verification failed">>),
                                AUTHORIZATION_FAILED, Undefined))
         /\ ev' = <<>>
         /\ handles' = handles

\* C11: on a URL that matches neither the blank callback nor an action
\* marker, run() throws AUTHORIZATION_FAILED "Account verification failed"
\* in a step that makes no fetch and no callback-service request.
C11_UnknownPageFails == [][C11_Step]_vars

\* run() threw on a page no marker matches
C11_Witness ==
    /\ pc = "done"
    /\ response.includes = {}
    /\ response.hash = <<>>
    /\ ThrewCode(result, AUTHORIZATION_FAILED)
    /\ result.error.message = Str(<<"Account verification failed">>)

(* C12 *)

\* the phone, else a login without '@', else nothing
C12_Candidate ==
    IF options.phone # Undefined THEN options.phone
    ELSE IF options.login # Undefined
            /\ \A i \in 1..Len(options.login.s) : options.login.s[i] # "@"
    THEN options.login
    ELSE Undefined

C12_Step ==
    pc = "loop" /\ Classify(response) = "SecurityCode"
      => IF C12_Candidate = Undefined
         THEN /\ pc' = "done"
              /\ ThrewCode(result', INVALID_PHONE_NUMBER)
              /\ ev' = <<>>
         ELSE /\ pc' = "securityPost"
              /\ ev' = <<PostCode(SecurityCode(C12_Candidate, response))>>

\* C12: on a security page the number comes from options.phone when it is
\* set, else from options.login when that is set and holds no '@'; with
\* neither, run() throws INVALID_PHONE_NUMBER in a step that makes no POST,
\* and otherwise the code posted is cut from that number.
C12_PhoneCandidate == [][C12_Step]_vars

\* run() threw on a security page because the only login is an e-mail
C12_Witness ==
    /\ pc = "done"
    /\ Classify(response) = "SecurityCode"
    /\ options.phone = Undefined
    /\ options.login = Str(EmailLogin)
    /\ result = Throw(MissingPhone)

(* C13 *)

\* the step received the response of the security POST
SecurityAnswered ==
    /\ pc = "securityPost"
    /\ \/ pc' = "loop"
       \/ Len(ev') = 1 /\ ev'[1].op = "response"

\* the response the step received: the loop's new response, or the one the
\* step dropped
SecurityAnswer == IF pc' = "loop" THEN response' ELSE ev'[1].url

\* the handler posts once: one POST on entry, none while it waits
C13_OnePost ==
    /\ pc = "loop" /\ pc' = "securityPost"
         => ev' = <<PostCode(SecurityCodes[options, response])>>
    /\ pc = "securityPost"
         => /\ pc' \in {"loop", "done"}
            /\ \A i \in 1..Len(ev') : ev'[i].op # "fetch"

C13_ClassifiedStep ==
    /\ C13_OnePost
    /\ SecurityAnswered
         => IF Classify(SecurityAnswer) = "SecurityCode"
            THEN pc' = "done" /\ result' = Throw(InvalidPhone)
            ELSE pc' = "loop" /\ result' = result

\* C13 as stated: one POST per invocation; a response the loop would
\* classify as SecurityCode throws INVALID_PHONE_NUMBER, every other
\* response goes back to the loop unchanged.
C13_SingleShotClassified == [][C13_ClassifiedStep]_vars

C13_Step ==
    /\ C13_OnePost
    /\ SecurityAnswered
         => IF Includes(SecurityAnswer, ACTION_SECURITY_CODE)
            THEN pc' = "done" /\ result' = Throw(InvalidPhone)
            ELSE pc' = "loop" /\ result' = result

\* C13: one POST per invocation; a response whose URL includes the security
\* marker, whatever else it includes, throws INVALID_PHONE_NUMBER, every
\* other response goes back to the loop unchanged.
C13_SingleShot == [][C13_Step]_vars

\* the POST was answered by a URL with the two-factor and the security
\* marker, and run() threw 'Invalid phone number'
C13_Witness ==
    /\ pc = "done"
    /\ Len(ev) = 1
    /\ ev[1].op = "response"
    /\ ev[1].url.includes = {ACTION_AUTH_CODE, ACTION_SECURITY_CODE}
    /\ result = Throw(InvalidPhone)

(* C14 *)

\* the characters of s at the zero-based positions from..to-1
Substring(s, from, to) ==
    LET lo == IF from < 0 THEN 0 ELSE from
        hi == IF to > Len(s) THEN Len(s) ELSE to
    IN  IF lo < hi THEN SubSeq(s, lo + 1, hi) ELSE <<>>

\* the candidate as text, trimmed, one leading "+" or "00" removed
C14_Normalized == StripLead(Trim(StringOf(PhoneCandidate(options))))

C14_Prefix == Len(RemovePlus(Trim(FirstText(response))))

C14_Suffix == Len(Trim(LastText(response)))

\* C14 as stated: the code posted is the substring of the normalized number
\* from position prefix up to, not including, position length - suffix.
C14_CodeIsSubstring ==
    pc = "securityPost"
      => ev = <<PostCode(Substring(C14_Normalized, C14_Prefix,
                                   Len(C14_Normalized) - C14_Suffix))>>

\* the end position, counted from the end of the number when the suffix is
\* longer than the number
C14_End ==
    LET len == Len(C14_Normalized)
    IN  IF len - C14_Suffix >= 0 THEN len - C14_Suffix
        ELSE IF 2 * len - C14_Suffix < 0 THEN 0
        ELSE 2 * len - C14_Suffix

\* C14: the code posted is the substring of the normalized number from
\* position prefix up to, not including, position length - suffix, and when
\* the suffix is longer than the number, up to position
\* max(0, 2 * length - suffix).
C14_CodeIsSlice ==
    pc = "securityPost"
      => ev = <<PostCode(Substring(C14_Normalized, C14_Prefix, C14_End))>>

\* the number 123 under a last label of four characters: "12" is posted
C14_Witness ==
    /\ pc = "securityPost"
    /\ options.phone = Num(123)
    /\ response.labels = << <<>>, <<"*", "*", "9", "0">> >>
    /\ ev = <<PostCode(<<"1", "2">>)>>

(* C15 *)

\* the phone "+71234567890" on a page whose labels measure 2 and 2
C15_Case ==
    /\ pc = "securityPost"
    /\ options.phone = Str(PhoneNumber)
    /\ C14_Prefix = 2
    /\ C14_Suffix = 2

\* C15 as stated: phone "+71234567890", prefix 2, suffix 2: the code posted
\* is "123456".
C15_SixDigits ==
    C15_Case => ev = <<PostCode(<<"1", "2", "3", "4", "5", "6">>)>>

\* C15: phone "+71234567890", prefix 2, suffix 2: the code posted is the
\* seven digits "2345678" of "71234567890".
C15_SevenDigits ==
    C15_Case => ev = <<PostCode(<<"2", "3", "4", "5", "6", "7", "8">>)>>

\* the phone "+71234567890" was posted against the labels "+71" and "90"
C15_Witness ==
    /\ C15_Case
    /\ response.labels = << <<"+", "7", "1">>, <<"9", "0">> >>
    /\ ev = <<PostCode(<<"2", "3", "4", "5", "6", "7", "8">>)>>

(* C16 *)

\* the handles this run has received for two-factor codes
RunTwoFactorHandles ==
    {h \in (runBase + 1)..Len(handles) : handles[h].kind = "TwoFactor"}

\* the handle returned with the previous two-factor code of this run
PreviousTwoFactor ==
    CHOOSE h \in RunTwoFactorHandles : \A g \in RunTwoFactorHandles : g <= h

C16_Step ==
    /\ pc = "loop"
    /\ Classify(response) = "TwoFactor"
    /\ RunTwoFactorHandles # {}
    => /\ handles'[PreviousTwoFactor].status = "rejected"
       /\ handles'[PreviousTwoFactor].error = IncorrectTwoFactor(response)
       /\ twoFactorAttempts' = twoFactorAttempts + 1
       /\ twoFactorValidate' = NoHandle
       /\ Len(ev') >= 1
       /\ ev'[1] = RejectCall(PreviousTwoFactor, IncorrectTwoFactor(response))

\* C16: when the two-factor handler is entered again after a code was
\* requested in this run, the handle of the previous code is rejected with
\* FAILED_PASSED_TWO_FACTOR carrying the page, twoFactorAttempts grows by
\* one and the stored handle is cleared, before the next request.
C16_RejectOnReentry == [][C16_Step]_vars

(* C17 *)

C17_Step ==
    pc = "twoFactorPost" /\ pc' = "done"
      => \E error \in FetchErrors :
            /\ handles[validate].kind = "TwoFactor"
            /\ handles[validate].status = "open"
            /\ handles' = [handles EXCEPT ![validate].status = "rejected",
                                          ![validate].error = error]
            /\ ev' = <<RejectCall(validate, error)>>
            /\ result' = Throw(error)

\* C17: when the POST of a two-factor code rejects, the handle that came
\* with the code is rejected with the error of the POST and run() throws
\* that same error, the reject being made in the step that throws.
C17_PostFailureRejectsHandle == [][C17_Step]_vars

\* the POST of a code ran into the timeout: its handle holds that error and
\* run() threw it
C17_Witness ==
    /\ pc = "done"
    /\ result = Throw(FetchTimeout)
    /\ Len(ev) = 1
    /\ ev[1].op = "reject"
    /\ handles[ev[1].handle].kind = "TwoFactor"
    /\ handles[ev[1].handle].status = "rejected"
    /\ handles[ev[1].handle].error = FetchTimeout

(* C18 *)

\* the handler of the kind is taking the step: it is entered from the loop
\* or is at one of its awaits
HandlerStep(kind, awaits) ==
    \/ pc = "loop" /\ Classify(response) = kind
    \/ pc \in awaits

C18_Step ==
    /\ \/ HandlerStep("SecurityCode", {"securityPost"})
       \/ HandlerStep("PhoneValidation", {"validateGet"})
         => /\ UNCHANGED <<captchaAttempts, captchaValidate,
                           twoFactorAttempts, twoFactorValidate, handles>>
            /\ \A i \in 1..Len(ev') : ev'[i].op # "request"
    /\ HandlerStep("TwoFactor", {"twoFactor", "twoFactorPost"})
         => UNCHANGED <<captchaAttempts, captchaValidate>>
    /\ HandlerStep("Captcha", {"captcha", "captchaPost"})
         => UNCHANGED <<twoFactorAttempts, twoFactorValidate>>
    /\ pc \notin {"idle", "done"}
         => /\ captchaAttempts' >= captchaAttempts
            /\ twoFactorAttempts' >= twoFactorAttempts

C19_Step ==
    /\ pc = "loop" /\ Classify(response) = "Captcha"
         => /\ pc' = "captcha"
            /\ Len(ev') >= 1
            /\ ev'[Len(ev')] = RequestCall("Captcha")
    /\ pc = "captcha" /\ Len(handles') > Len(handles)
         => /\ pc' = "captchaPost"
            /\ ev' = <<FetchCall("POST")>>
    /\ ~ThrewCode(result', FAILED_PASSED_CAPTCHA)

\* C19: whatever captchaAttempts has reached, a captcha page makes the
\* handler ask the callback service for a key, and a key received is posted;
\* run() never throws FAILED_PASSED_CAPTCHA.
C19_NoCaptchaCap == [][C19_Step]_vars

\* as many captcha handles rejected as the two-factor budget allows codes,
\* and another key has been received and posted
C19_Witness ==
    /\ pc = "captchaPost"
    /\ captchaAttempts >= TWO_FACTOR_ATTEMPTS
    /\ Cardinality({h \in 1..Len(handles) :
            /\ handles[h].kind = "Captcha"
            /\ handles[h].status = "rejected"
            /\ handles[h].error = IncorrectCaptcha}) >= TWO_FACTOR_ATTEMPTS
    /\ captchaValidate = Len(handles)
    /\ handles[captchaValidate].status = "open"

(* C20 *)

\* the error tells the holder of a handle that the answer was incorrect
IncorrectAnswer(error) ==
    /\ error.name = "AuthorizationError"
    /\ error.code \in {FAILED_PASSED_CAPTCHA, FAILED_PASSED_TWO_FACTOR}

\* the POST of this run that submitted the answer of handle h was answered
\* by a page of the handle's own kind
AnsweredBySameKind(h) ==
    IF handles[h].kind = "Captcha"
    THEN h = captchaValidate /\ captchaAnswer = <<TRUE>>
    ELSE tfChain >= 1

C20_Step ==
    \A i \in 1..Len(ev') :
        /\ ev'[i].op = "reject"
        /\ ev'[i].handle > runBase
        /\ IncorrectAnswer(ev'[i].error)
        => AnsweredBySameKind(ev'[i].handle)

\* C20: a handle received in this run is rejected with FAILED_PASSED_CAPTCHA
\* or FAILED_PASSED_TWO_FACTOR only if the POST that submitted its answer
\* was answered by a page of the same kind.
C20_IncorrectOnlyAfterSameKind == [][C20_Step]_vars

=============================================================================
